---- MODULE Spec2Model ----
(***************************************************************************)
(* Model of the concurrent bulk-operation engine of CleanAwsS3:            *)
(* S3Cleaner.clean_bucket / copy_objects (src/s3_cleaner.py) driven by     *)
(* S3OperationThread.run (src/gui.py), with the ThreadPoolExecutor worker  *)
(* pool and the caller's cancel / pause / resume requests.                 *)
(*                                                                         *)
(* Listing entries are identified by their global position in the listing  *)
(* (1..N); a batch is the interval [lo..hi] of positions it carries, so a  *)
(* page of 1000 entries is two numbers and not a 1000-element sequence.    *)
(***************************************************************************)
EXTENDS Integers, Sequences, FiniteSets, TLC

\* ------------------------------------------------------------------ bounds
MaxPages == 2
NumWorkers == 2
MaxStoreFailures == 1
MaxTasks == 4
MaxFairTasks == 2
MaxSessionTasks == 1
MaxStrLen == 3

\* the S3 multi-delete limit used by both slicing loops
BatchLimit == 1000

\* ------------------------------------------------------------------ state
VARIABLES
    operation_type,    \* "clean" | "copy" | "key" (S3OperationThread.operation_type)
    bucketOk,          \* head_bucket answers for the (source, destination) bucket
    versioning,        \* what get_bucket_versioning answers
    listing,           \* the pages the paginator of this run yields
    kind,              \* enumeration strategy: "none" | "plain" | "versioned" | "copy"
    pc,                \* position of the driving thread
    pageIdx,           \* pages fetched from the paginator so far
    reqLog,            \* page numbers requested from the store, in order
    versioningQueries, \* get_bucket_versioning calls issued
    batchI,            \* loop index i of the slicing / per-object loop
    ci,                \* loop index of the future.cancel() loop
    futures,           \* the list `futures`, one record per submitted task
    queue,             \* the executor's FIFO work queue (future ids)
    yielded,           \* futures as_completed has already handed out
    cur,               \* the future the drain loop is processing
    cancelled,         \* S3OperationThread._cancelled
    paused,            \* S3OperationThread._paused
    observed,          \* a cancellation checkpoint read cancelled = TRUE
    held,              \* the page loop read paused = TRUE and has since read
                       \* neither paused = FALSE nor cancelled = TRUE
    pages_processed,
    batches_created,   \* batches_created / total_objects_submitted
    completed_batches, \* completed_batches / completed_count
    deleted_count,     \* deleted_count / copied_count
    storeDone,         \* items the store reported deleted / copied in this run
    failsLeft,         \* store failures still allowed by MaxStoreFailures
    storeFailed,       \* some store call failed (wholly or for one item)
    listFailed,        \* a page request raised ClientError
    ret,               \* return value of clean_bucket / copy_objects
    outcome,           \* what finished.emit reports
    source_prefix, dest_prefix, source_key, dest_key, kpc, \* key derivation
    previous           \* the flags of the operation thread the window held
                       \* before this one, as they were when it was replaced

engineVars == <<operation_type, bucketOk, versioning, listing, kind, pc, pageIdx,
                reqLog, versioningQueries, batchI, ci, futures, queue,
                yielded, cur, cancelled, paused, observed, held, pages_processed,
                batches_created, completed_batches, deleted_count, storeDone,
                failsLeft, storeFailed, listFailed, ret, outcome>>
keyVars == <<source_prefix, dest_prefix, source_key, dest_key, kpc>>
vars == <<engineVars, keyVars, previous>>

Min(a, b) == IF a < b THEN a ELSE b

\* ------------------------------------------------------------------ listings
\* One page of a listing: nv entries under Contents (plain listing) or
\* Versions (versions listing), nm entries under DeleteMarkers.
Page(nv, nm) == [nv |-> nv, nm |-> nm]

PlainPages == {Page(0, 0), Page(1000, 0), Page(1001, 0)}
VersionedPages == {Page(0, 0), Page(20, 10), Page(1000, 1)}
CopyPages == {Page(0, 0), Page(1, 0), Page(2, 0)}


\* variant: the DeleteMarkers of a page are not collected
PageLen_noMarkers(k, page) == page.nv

\* len(objects_in_page) / len(objects_to_delete) for a page
PageLen(k, page) == IF k = "versioned" THEN page.nv + page.nm ELSE page.nv

RECURSIVE SumLen(_, _, _)
SumLen(k, l, n) == IF n = 0 THEN 0 ELSE SumLen(k, l, n - 1) + PageLen(k, l[n])

\* global position of the entry before the first entry of page p
Offset(k, l, p) == SumLen(k, l, p - 1)
TotalItems(k, l) == SumLen(k, l, Len(l))

\* page number a global position belongs to
PageOf(k, l, pos) == CHOOSE p \in 1..Len(l) :
    Offset(k, l, p) < pos /\ pos <= Offset(k, l, p) + PageLen(k, l[p])

\* variant: the delete markers of a page are collected before its versions
WorkItem_markersFirst(k, page, j) ==
    IF k = "versioned"
    THEN IF j <= page.nm
         THEN [Key |-> <<"DeleteMarkers", j>>, VersionId |-> <<"DeleteMarkers", j>>]
         ELSE [Key |-> <<"Versions", j - page.nm>>,
               VersionId |-> <<"Versions", j - page.nm>>]
    ELSE [Key |-> <<"Contents", j>>]

\* the j-th entry of objects_to_delete / objects_in_page built from a page:
\* the Versions entries, then the DeleteMarkers entries, each with its
\* VersionId (versioned loop); the Contents entries with their Key only
\* (plain loop). An entry is named by the page field and rank it comes from.
WorkItem(k, page, j) ==
    IF k = "versioned"
    THEN IF j <= page.nv
         THEN [Key |-> <<"Versions", j>>, VersionId |-> <<"Versions", j>>]
         ELSE [Key |-> <<"DeleteMarkers", j - page.nv>>,
               VersionId |-> <<"DeleteMarkers", j - page.nv>>]
    ELSE [Key |-> <<"Contents", j>>]

\* tasks a listing gives rise to: one per slice of a page (clean) or one
\* per entry (copy)
RECURSIVE TaskCount(_, _, _)
TaskCount(k, l, n) ==
    IF n = 0 THEN 0
    ELSE TaskCount(k, l, n - 1)
         + (IF k = "copy" THEN PageLen(k, l[n])
            ELSE (PageLen(k, l[n]) + BatchLimit - 1) \div BatchLimit)

\* the documented scenario: 2500 keys listed as pages of 1000, 1000 and 500
ScenarioPlain == <<Page(1000, 0), Page(1000, 0), Page(500, 0)>>

\* a listing whose pages hold fewer than 1000 keys each
ShortPages == <<Page(500, 0), Page(500, 0)>>

\* the listings of at most MaxPages pages and MaxTasks tasks
Listings(k, shapes) ==
    {l \in UNION {[1..n -> shapes] : n \in 1..MaxPages} :
        TaskCount(k, l, Len(l)) <= MaxTasks}


\* variant: a query the store answers with an error counts as versioned
is_versioned_errorMeansEnabled(answer) == answer \in {"Enabled", "ClientError"}

\* ------------------------------------------------------------------ pure parts
\* S3Cleaner.is_versioned: Status == 'Enabled'; a ClientError is logged and
\* answered False.
is_versioned(answer) == answer = "Enabled"

\* S3Cleaner.count_objects on a bucket whose versions listing is l: the
\* versions / delete_markers totals are summed only when is_versioned holds.
RECURSIVE SumField(_, _, _)
SumField(l, n, takeMarkers) ==
    IF n = 0 THEN 0
    ELSE SumField(l, n - 1, takeMarkers)
         + (IF takeMarkers THEN l[n].nm ELSE l[n].nv)

count_objects(answer, l) ==
    IF is_versioned(answer)
    THEN [versions |-> SumField(l, Len(l), FALSE),
          delete_markers |-> SumField(l, Len(l), TRUE)]
    ELSE [versions |-> 0, delete_markers |-> 0]

\* variant: the slice ends one entry early
Slice_dropLast(off, n, i) ==
    [lo |-> off + i + 1, hi |-> off + Min(i + BatchLimit, n) - 1]

\* variant: the whole remainder of the page goes into one batch
Slice_noLimit(off, n, i) == [lo |-> off + i + 1, hi |-> off + n]

\* variant: a slice holds at most half the batch limit
Slice_halfBatch(off, n, i) ==
    [lo |-> off + i + 1, hi |-> off + Min(i + (BatchLimit \div 2), n)]

\* batch = objects[i:i+1000] of a page whose entries are positions
\* off+1 .. off+n; i is the 0-based loop index.
Slice(off, n, i) == [lo |-> off + i + 1, hi |-> off + Min(i + BatchLimit, n)]

\* variant: the loop advances by one entry less than the slice length
NextI_overlap(i) == i + BatchLimit - 1

\* range(0, len, 1000) advances by the batch limit
NextI(i) == i + BatchLimit

\* what executor.submit appends to `futures`
NewFuture(lo, hi) == [lo |-> lo, hi |-> hi, st |-> "pending", res |-> 0, calls |-> 0]

BatchSize(f) == f.hi - f.lo + 1

\* the page the driving thread holds, and its entries
CurPage == listing[pageIdx]
CurLen == PageLen(kind, CurPage)
CurOff == Offset(kind, listing, pageIdx)

Running == {f \in 1..Len(futures) : futures[f].st = "running"}
Finished == {f \in 1..Len(futures) : futures[f].st \in {"done", "cancelled"}}

\* variant: the outcome is derived from the return value alone
Outcome_ignoresFlag(c, r) == IF r THEN "Success" ELSE "Failed"

\* S3OperationThread.run, after the engine returned `r`
Outcome(c, r) == IF c THEN "Cancelled" ELSE IF r THEN "Success" ELSE "Failed"

\* ------------------------------------------------------------------ Init
\* "ClientError" is caught by is_versioned; "ConnectionError" stands for any
\* exception that is not a ClientError and so leaves is_versioned
VersioningAnswers == {"Enabled", "Suspended", "ClientError", "ConnectionError"}

\* get_bucket_versioning raises an exception is_versioned does not catch
VersioningRaises(answer) == answer = "ConnectionError"

\* MainWindow.operation_thread is None before the first operation
NoThread == [cancelled |-> FALSE, paused |-> FALSE, any |-> FALSE]

KeyIdle ==
    /\ source_prefix = <<>> /\ dest_prefix = <<>>
    /\ source_key = <<>> /\ dest_key = <<>> /\ kpc = "off"

EngineStart(p) ==
    /\ kind = "none" /\ pc = p /\ pageIdx = 0 /\ reqLog = <<>>
    /\ versioningQueries = 0 /\ batchI = 0 /\ ci = 0
    /\ futures = <<>> /\ queue = <<>> /\ yielded = {} /\ cur = 0
    /\ cancelled = FALSE /\ paused = FALSE /\ observed = FALSE /\ held = FALSE
    /\ pages_processed = 0 /\ batches_created = 0
    /\ completed_batches = 0 /\ deleted_count = 0 /\ storeDone = 0
    /\ failsLeft = MaxStoreFailures
    /\ storeFailed = FALSE /\ listFailed = FALSE
    /\ ret = FALSE /\ outcome = "none"
    /\ previous = NoThread

Init ==
    /\ operation_type \in {"clean", "copy"}
    /\ \/ /\ operation_type = "clean"
          /\ bucketOk \in {<<TRUE, TRUE>>, <<FALSE, TRUE>>}
          /\ versioning \in VersioningAnswers
          /\ listing \in IF ~bucketOk[1] \/ VersioningRaises(versioning)
                         THEN {<<Page(0, 0)>>}
                         ELSE IF is_versioned(versioning)
                              THEN Listings("versioned", VersionedPages)
                              ELSE Listings("plain", PlainPages)
                                   \cup {ScenarioPlain, ShortPages}
       \/ /\ operation_type = "copy"
          /\ bucketOk \in {<<TRUE, TRUE>>, <<FALSE, TRUE>>, <<TRUE, FALSE>>}
          /\ versioning = "Suspended"
          /\ listing \in IF bucketOk # <<TRUE, TRUE>> THEN {<<Page(0, 0)>>}
                         ELSE Listings("copy", CopyPages)
    /\ EngineStart("verify")
    /\ KeyIdle


\* ------------------------------------------------------------------ driving thread
\* leaving the `with ThreadPoolExecutor` block with return value r
ExitWith(r) == ret' = r /\ pc' = "shutdown"

\* clean_bucket / copy_objects: bucket_exists checks; a missing bucket
\* returns False before the executor exists.
VerifyBucket ==
    /\ pc = "verify"
    /\ IF operation_type = "clean"
       THEN IF bucketOk[1]
            THEN pc' = "versioning" /\ UNCHANGED <<ret, kind>>
            ELSE pc' = "report" /\ ret' = FALSE /\ UNCHANGED kind
       ELSE IF bucketOk[1] /\ bucketOk[2]
            THEN pc' = "page" /\ kind' = "copy" /\ UNCHANGED ret
            ELSE pc' = "report" /\ ret' = FALSE /\ UNCHANGED kind
    /\ UNCHANGED <<keyVars, previous>>
    /\ UNCHANGED <<held, operation_type, bucketOk, versioning, listing, pageIdx, reqLog,
                   versioningQueries, batchI, ci, futures, queue, yielded, cur,
                   cancelled, paused, observed, pages_processed, batches_created,
                   completed_batches, deleted_count, storeDone, failsLeft,
                   storeFailed, listFailed, outcome>>

\* variant: the versioning status is queried a second time before listing
QueryVersioning_twice ==
    /\ pc = "versioning"
    /\ versioningQueries' = versioningQueries + 1
    /\ IF VersioningRaises(versioning)
       THEN ret' = FALSE /\ pc' = "report" /\ UNCHANGED kind
       ELSE /\ kind' = IF is_versioned(versioning) THEN "versioned" ELSE "plain"
            /\ pc' = IF versioningQueries = 0 THEN "versioning" ELSE "page"
            /\ UNCHANGED ret
    /\ UNCHANGED <<keyVars, previous>>
    /\ UNCHANGED <<held, operation_type, bucketOk, versioning, listing, pageIdx, reqLog,
                   batchI, ci, futures, queue, yielded, cur,
                   cancelled, paused, observed, pages_processed, batches_created,
                   completed_batches, deleted_count, storeDone, failsLeft,
                   storeFailed, listFailed, outcome>>

\* clean_bucket: is_versioned selects the strategy; an exception that
\* leaves is_versioned is caught by clean_bucket's `except Exception`
QueryVersioning ==
    /\ pc = "versioning"
    /\ versioningQueries' = versioningQueries + 1
    /\ IF VersioningRaises(versioning)
       THEN ret' = FALSE /\ pc' = "report" /\ UNCHANGED kind
       ELSE /\ kind' = IF is_versioned(versioning) THEN "versioned" ELSE "plain"
            /\ pc' = "page"
            /\ UNCHANGED ret
    /\ UNCHANGED <<keyVars, previous>>
    /\ UNCHANGED <<held, operation_type, bucketOk, versioning, listing, pageIdx, reqLog,
                   batchI, ci, futures, queue, yielded, cur,
                   cancelled, paused, observed, pages_processed, batches_created,
                   completed_batches, deleted_count, storeDone, failsLeft,
                   storeFailed, listFailed, outcome>>

\* variant: a failed page request is recorded and the loop goes on with the
\* following page
NextPage_skipFailed ==
    /\ pc = "page"
    /\ IF pageIdx = Len(listing)
       THEN /\ pc' = "drain"
            /\ UNCHANGED <<pageIdx, reqLog, listFailed, ret>>
       ELSE /\ reqLog' = Append(reqLog, pageIdx + 1)
            /\ pageIdx' = pageIdx + 1
            /\ pc' = "check"
            /\ listFailed' \in {listFailed, TRUE}
            /\ UNCHANGED ret
    /\ UNCHANGED <<keyVars, previous>>
    /\ UNCHANGED <<held, operation_type, bucketOk, versioning, listing, kind,
                   versioningQueries, batchI, ci, futures, queue, yielded, cur,
                   cancelled, paused, observed, pages_processed, batches_created,
                   completed_batches, deleted_count, storeDone, failsLeft,
                   storeFailed, outcome>>

\* `for page in paginator.paginate(...)`: the next page is requested from the
\* store; the request may raise ClientError; after the last page the loop ends.
NextPage ==
    /\ pc = "page"
    /\ IF pageIdx = Len(listing)
       THEN /\ pc' = "drain"
            /\ UNCHANGED <<pageIdx, reqLog, listFailed, ret>>
       ELSE /\ reqLog' = Append(reqLog, pageIdx + 1)
            /\ \/ /\ pageIdx' = pageIdx + 1
                  /\ pc' = "check"
                  /\ UNCHANGED <<listFailed, ret>>
               \/ /\ listFailed' = TRUE
                  /\ ExitWith(FALSE)
                  /\ UNCHANGED pageIdx
    /\ UNCHANGED <<keyVars, previous>>
    /\ UNCHANGED <<held, operation_type, bucketOk, versioning, listing, kind,
                   versioningQueries, batchI, ci, futures, queue, yielded, cur,
                   cancelled, paused, observed, pages_processed, batches_created,
                   completed_batches, deleted_count, storeDone, failsLeft,
                   storeFailed, outcome>>

\* variant: the page-start check reports the cancellation and goes on
CheckCancel_noReturn ==
    /\ pc = "check"
    /\ observed' = (observed \/ cancelled)
    /\ pc' = "pausechk"
    /\ UNCHANGED <<keyVars, previous>>
    /\ UNCHANGED <<held, ci, operation_type, bucketOk, versioning, listing, kind,
                   pageIdx, reqLog, versioningQueries, batchI, futures, queue,
                   yielded, cur, cancelled, paused, pages_processed,
                   batches_created, completed_batches, deleted_count, storeDone,
                   failsLeft, storeFailed, listFailed, ret, outcome>>

\* the cancellation check at the start of a page
CheckCancel ==
    /\ pc = "check"
    /\ IF cancelled
       THEN observed' = TRUE /\ ci' = 1 /\ pc' = "cancelfut"
       ELSE pc' = "pausechk" /\ UNCHANGED <<observed, ci>>
    /\ UNCHANGED <<keyVars, previous>>
    /\ UNCHANGED <<held, operation_type, bucketOk, versioning, listing, kind, pageIdx,
                   reqLog, versioningQueries, batchI, futures, queue, yielded, cur,
                   cancelled, paused, pages_processed, batches_created,
                   completed_batches, deleted_count, storeDone, failsLeft,
                   storeFailed, listFailed, ret, outcome>>

\* variant: cancel() also stops a task a worker has started
CancelOne_any(f) == [f EXCEPT !.st = "cancelled"]

\* future.cancel(): only a future no worker has started is cancelled
CancelOne(f) == IF f.st = "pending" THEN [f EXCEPT !.st = "cancelled"] ELSE f

\* `for future in futures: future.cancel()`, one future per step, then return False
CancelFutures ==
    /\ pc = "cancelfut"
    /\ IF ci > Len(futures)
       THEN ExitWith(FALSE) /\ UNCHANGED <<futures, ci>>
       ELSE /\ futures' = [futures EXCEPT ![ci] = CancelOne(futures[ci])]
            /\ ci' = ci + 1
            /\ UNCHANGED <<pc, ret>>
    /\ UNCHANGED <<keyVars, previous>>
    /\ UNCHANGED <<held, operation_type, bucketOk, versioning, listing, kind, pageIdx,
                   reqLog, versioningQueries, batchI, queue, yielded, cur,
                   cancelled, paused, observed, pages_processed, batches_created,
                   completed_batches, deleted_count, storeDone, failsLeft,
                   storeFailed, listFailed, outcome>>

\* variant: the pause flag is read but the page is processed all the same
PauseCheck_noWait ==
    /\ pc = "pausechk"
    /\ pc' = "process"
    /\ held' = paused
    /\ UNCHANGED <<keyVars, previous>>
    /\ UNCHANGED <<operation_type, bucketOk, versioning, listing, kind, pageIdx,
                   reqLog, versioningQueries, batchI, ci, futures, queue, yielded,
                   cur, cancelled, paused, observed, pages_processed,
                   batches_created, completed_batches, deleted_count, storeDone,
                   failsLeft, storeFailed, listFailed, ret, outcome>>

\* `while pause_flag and pause_flag():` of the page loop
PauseCheck ==
    /\ pc = "pausechk"
    /\ pc' = IF paused THEN "sleep" ELSE "process"
    /\ held' = paused
    /\ UNCHANGED <<keyVars, previous>>
    /\ UNCHANGED <<operation_type, bucketOk, versioning, listing, kind, pageIdx,
                   reqLog, versioningQueries, batchI, ci, futures, queue, yielded,
                   cur, cancelled, paused, observed, pages_processed,
                   batches_created, completed_batches, deleted_count, storeDone,
                   failsLeft, storeFailed, listFailed, ret, outcome>>

\* variant: the pause loop of the page loop does not read the cancel flag
Sleep_noCancelCheck ==
    /\ pc = "sleep"
    /\ pc' = "pausechk"
    /\ UNCHANGED <<keyVars, previous>>
    /\ UNCHANGED <<operation_type, bucketOk, versioning, listing, kind, pageIdx,
                   reqLog, versioningQueries, batchI, ci, futures, queue, yielded,
                   cur, cancelled, paused, observed, held, pages_processed,
                   batches_created, completed_batches, deleted_count, storeDone,
                   failsLeft, storeFailed, listFailed, ret, outcome>>

\* time.sleep(0.5), then the cancellation check inside the pause loop
Sleep ==
    /\ pc = "sleep"
    /\ IF cancelled
       THEN observed' = TRUE /\ held' = FALSE /\ ExitWith(FALSE)
       ELSE pc' = "pausechk" /\ UNCHANGED <<observed, held, ret>>
    /\ UNCHANGED <<keyVars, previous>>
    /\ UNCHANGED <<operation_type, bucketOk, versioning, listing, kind, pageIdx,
                   reqLog, versioningQueries, batchI, ci, futures, queue, yielded,
                   cur, cancelled, paused, pages_processed, batches_created,
                   completed_batches, deleted_count, storeDone, failsLeft,
                   storeFailed, listFailed, outcome>>

\* variant: a page that does not fill a batch is passed over
SkipsPage_short(n) == n < BatchLimit

\* a page with nothing to submit is skipped (`continue`)
SkipsPage(n) == n = 0

\* variant: the batch counter is started afresh for every page
ProcessPage_perPageCount ==
    /\ pc = "process"
    /\ pages_processed' =
         IF kind = "copy" /\ SkipsPage(CurLen) THEN pages_processed
         ELSE pages_processed + 1
    /\ batchI' = 0
    /\ batches_created' = 0
    /\ pc' = IF SkipsPage(CurLen) THEN "page" ELSE "submit"
    /\ UNCHANGED <<keyVars, previous>>
    /\ UNCHANGED <<held, operation_type, bucketOk, versioning, listing, kind, pageIdx,
                   reqLog, versioningQueries, ci, futures, queue, yielded, cur,
                   cancelled, paused, observed,
                   completed_batches, deleted_count, storeDone, failsLeft,
                   storeFailed, listFailed, ret, outcome>>

\* the page body up to the submission loop: pages_processed is counted
\* before the emptiness test in both clean loops and after it in copy
ProcessPage ==
    /\ pc = "process"
    /\ pages_processed' =
         IF kind = "copy" /\ SkipsPage(CurLen) THEN pages_processed
         ELSE pages_processed + 1
    /\ batchI' = 0
    /\ pc' = IF SkipsPage(CurLen) THEN "page" ELSE "submit"
    /\ UNCHANGED <<keyVars, previous>>
    /\ UNCHANGED <<held, operation_type, bucketOk, versioning, listing, kind, pageIdx,
                   reqLog, versioningQueries, ci, futures, queue, yielded, cur,
                   cancelled, paused, observed, batches_created,
                   completed_batches, deleted_count, storeDone, failsLeft,
                   storeFailed, listFailed, ret, outcome>>

\* the work items of the task submitted at loop index i: a slice of up to
\* 1000 entries for a delete batch, one entry for a copy
TaskItems(i) ==
    IF kind = "copy" THEN [lo |-> CurOff + i + 1, hi |-> CurOff + i + 1]
    ELSE Slice(CurOff, CurLen, i)

\* variant: the copy loop advances like the batch loop
TaskStep_batch(i) == NextI(i)

\* the loop index after the task submitted at index i
TaskStep(i) == IF kind = "copy" THEN i + 1 ELSE NextI(i)

\* variant: submit blocks while every worker is busy (a bounded hand-over)
Submit_bounded ==
    /\ pc = "submit"
    /\ Len(queue) + Cardinality(Running) < NumWorkers
    /\ LET b == TaskItems(batchI) IN
       /\ futures' = Append(futures, NewFuture(b.lo, b.hi))
       /\ queue' = Append(queue, Len(futures) + 1)
    /\ batches_created' = batches_created + 1
    /\ batchI' = TaskStep(batchI)
    /\ pc' = IF TaskStep(batchI) < CurLen THEN "submit" ELSE "page"
    /\ UNCHANGED <<keyVars, previous>>
    /\ UNCHANGED <<held, operation_type, bucketOk, versioning, listing, kind, pageIdx,
                   reqLog, versioningQueries, ci, yielded, cur,
                   cancelled, paused, observed, pages_processed,
                   completed_batches, deleted_count, storeDone, failsLeft,
                   storeFailed, listFailed, ret, outcome>>

\* variant: the cancel flag is read before every submission
Submit_checked ==
    /\ pc = "submit"
    /\ IF cancelled
       THEN /\ observed' = TRUE /\ ExitWith(FALSE)
            /\ UNCHANGED <<futures, queue, batches_created, batchI>>
       ELSE /\ LET b == TaskItems(batchI) IN
               /\ futures' = Append(futures, NewFuture(b.lo, b.hi))
               /\ queue' = Append(queue, Len(futures) + 1)
            /\ batches_created' = batches_created + 1
            /\ batchI' = TaskStep(batchI)
            /\ pc' = IF TaskStep(batchI) < CurLen THEN "submit" ELSE "page"
            /\ UNCHANGED <<observed, ret>>
    /\ UNCHANGED <<keyVars, previous>>
    /\ UNCHANGED <<held, operation_type, bucketOk, versioning, listing, kind, pageIdx,
                   reqLog, versioningQueries, ci, yielded, cur,
                   cancelled, paused, pages_processed,
                   completed_batches, deleted_count, storeDone, failsLeft,
                   storeFailed, listFailed, outcome>>

\* one iteration of the submission loop: executor.submit + futures.append
Submit ==
    /\ pc = "submit"
    /\ LET b == TaskItems(batchI) IN
       /\ futures' = Append(futures, NewFuture(b.lo, b.hi))
       /\ queue' = Append(queue, Len(futures) + 1)
    /\ batches_created' = batches_created + 1
    /\ batchI' = TaskStep(batchI)
    /\ pc' = IF TaskStep(batchI) < CurLen THEN "submit" ELSE "page"
    /\ UNCHANGED <<keyVars, previous>>
    /\ UNCHANGED <<held, operation_type, bucketOk, versioning, listing, kind, pageIdx,
                   reqLog, versioningQueries, ci, yielded, cur,
                   cancelled, paused, observed, pages_processed,
                   completed_batches, deleted_count, storeDone, failsLeft,
                   storeFailed, listFailed, ret, outcome>>


\* ------------------------------------------------------------------ draining
\* variant: a task whose store call failed is not counted as completed
CompletedInc_skipFailed(f) == IF f.st = "cancelled" \/ f.res = 0 THEN 0 ELSE 1

\* what one processed completion adds to completed_batches / completed_count:
\* a result() that raises (a cancelled future) is counted by copy only
CompletedInc(f) == IF kind # "copy" /\ f.st = "cancelled" THEN 0 ELSE 1

\* variant: the size of the task is added instead of its result
ItemsInc_taskSize(f) == IF f.st = "cancelled" THEN 0 ELSE BatchSize(f)

\* what it adds to deleted_count / copied_count
ItemsInc(f) == IF f.st = "cancelled" THEN 0 ELSE f.res

ProcessResult ==
    /\ completed_batches' = completed_batches + CompletedInc(futures[cur])
    /\ deleted_count' = deleted_count + ItemsInc(futures[cur])
    /\ pc' = "drain"

\* variant: a finished future may be handed out again
Drain_repeat ==
    /\ pc = "drain"
    /\ IF yielded = 1..Len(futures)
       THEN ExitWith(TRUE) /\ UNCHANGED <<yielded, cur>>
       ELSE /\ \E f \in Finished :
                 cur' = f /\ yielded' = yielded \cup {f}
            /\ pc' = "drainchk"
            /\ UNCHANGED ret
    /\ UNCHANGED <<keyVars, previous>>
    /\ UNCHANGED <<held, operation_type, bucketOk, versioning, listing, kind, pageIdx,
                   reqLog, versioningQueries, batchI, ci, futures, queue,
                   cancelled, paused, observed, pages_processed, batches_created,
                   completed_batches, deleted_count, storeDone, failsLeft,
                   storeFailed, listFailed, outcome>>

\* `for future in as_completed(futures)`: hands out, in the order they
\* finish, the futures not handed out yet; ends when none is left
Drain ==
    /\ pc = "drain"
    /\ IF yielded = 1..Len(futures)
       THEN ExitWith(TRUE) /\ UNCHANGED <<yielded, cur>>
       ELSE /\ \E f \in Finished \ yielded :
                 cur' = f /\ yielded' = yielded \cup {f}
            /\ pc' = "drainchk"
            /\ UNCHANGED ret
    /\ UNCHANGED <<keyVars, previous>>
    /\ UNCHANGED <<held, operation_type, bucketOk, versioning, listing, kind, pageIdx,
                   reqLog, versioningQueries, batchI, ci, futures, queue,
                   cancelled, paused, observed, pages_processed, batches_created,
                   completed_batches, deleted_count, storeDone, failsLeft,
                   storeFailed, listFailed, outcome>>

\* variant: the drain check consumes the cancellation request it has read
DrainCheck_consumes ==
    /\ pc = "drainchk"
    /\ IF cancelled
       THEN /\ observed' = TRUE /\ ExitWith(FALSE) /\ cancelled' = FALSE
            /\ UNCHANGED <<completed_batches, deleted_count>>
       ELSE /\ UNCHANGED cancelled
            /\ IF kind = "copy"
               THEN /\ pc' = "drainpause"
                    /\ UNCHANGED <<observed, ret, completed_batches, deleted_count>>
               ELSE ProcessResult /\ UNCHANGED <<observed, ret>>
    /\ UNCHANGED <<keyVars, previous>>
    /\ UNCHANGED <<held, operation_type, bucketOk, versioning, listing, kind, pageIdx,
                   reqLog, versioningQueries, batchI, ci, futures, queue, yielded,
                   cur, paused, pages_processed, batches_created,
                   storeDone, failsLeft, storeFailed, listFailed, outcome>>

\* the cancellation check of the drain loop; the clean loops then take the
\* result, the copy loop first goes through its pause loop
DrainCheck ==
    /\ pc = "drainchk"
    /\ IF cancelled
       THEN /\ observed' = TRUE /\ ExitWith(FALSE)
            /\ UNCHANGED <<completed_batches, deleted_count>>
       ELSE IF kind = "copy"
            THEN /\ pc' = "drainpause"
                 /\ UNCHANGED <<observed, ret, completed_batches, deleted_count>>
            ELSE ProcessResult /\ UNCHANGED <<observed, ret>>
    /\ UNCHANGED <<keyVars, previous>>
    /\ UNCHANGED <<held, operation_type, bucketOk, versioning, listing, kind, pageIdx,
                   reqLog, versioningQueries, batchI, ci, futures, queue, yielded,
                   cur, cancelled, paused, pages_processed, batches_created,
                   storeDone, failsLeft, storeFailed, listFailed, outcome>>

\* copy_objects: `while pause_flag and pause_flag():` of the drain loop
DrainPause ==
    /\ pc = "drainpause"
    /\ IF paused
       THEN pc' = "drainsleep" /\ UNCHANGED <<completed_batches, deleted_count>>
       ELSE ProcessResult
    /\ UNCHANGED <<keyVars, previous>>
    /\ UNCHANGED <<held, operation_type, bucketOk, versioning, listing, kind, pageIdx,
                   reqLog, versioningQueries, batchI, ci, futures, queue, yielded,
                   cur, cancelled, paused, observed, pages_processed,
                   batches_created, storeDone, failsLeft, storeFailed, listFailed,
                   ret, outcome>>

\* variant: the pause loop of the drain loop does not read the cancel flag
DrainSleep_noCancelCheck ==
    /\ pc = "drainsleep"
    /\ pc' = "drainpause"
    /\ UNCHANGED <<keyVars, previous>>
    /\ UNCHANGED <<held, operation_type, bucketOk, versioning, listing, kind, pageIdx,
                   reqLog, versioningQueries, batchI, ci, futures, queue, yielded,
                   cur, cancelled, paused, observed, pages_processed,
                   batches_created, completed_batches, deleted_count, storeDone,
                   failsLeft, storeFailed, listFailed, ret, outcome>>

\* time.sleep(0.5), then the cancellation check inside the drain pause loop
DrainSleep ==
    /\ pc = "drainsleep"
    /\ IF cancelled
       THEN observed' = TRUE /\ ExitWith(FALSE)
       ELSE pc' = "drainpause" /\ UNCHANGED <<observed, ret>>
    /\ UNCHANGED <<keyVars, previous>>
    /\ UNCHANGED <<held, operation_type, bucketOk, versioning, listing, kind, pageIdx,
                   reqLog, versioningQueries, batchI, ci, futures, queue, yielded,
                   cur, cancelled, paused, pages_processed, batches_created,
                   completed_batches, deleted_count, storeDone, failsLeft,
                   storeFailed, listFailed, outcome>>

\* variant: the pool shutdown waits for the queue only, not for running calls
Shutdown_queueOnly ==
    /\ pc = "shutdown"
    /\ queue = <<>>
    /\ pc' = "report"
    /\ UNCHANGED <<keyVars, previous>>
    /\ UNCHANGED <<held, operation_type, bucketOk, versioning, listing, kind, pageIdx,
                   reqLog, versioningQueries, batchI, ci, futures, queue, yielded,
                   cur, cancelled, paused, observed, pages_processed,
                   batches_created, completed_batches, deleted_count, storeDone,
                   failsLeft, storeFailed, listFailed, ret, outcome>>

\* variant: the pool is shut down without waiting (shutdown(wait=False))
Shutdown_noWait ==
    /\ pc = "shutdown"
    /\ pc' = "report"
    /\ UNCHANGED <<keyVars, previous>>
    /\ UNCHANGED <<held, operation_type, bucketOk, versioning, listing, kind, pageIdx,
                   reqLog, versioningQueries, batchI, ci, futures, queue, yielded,
                   cur, cancelled, paused, observed, pages_processed,
                   batches_created, completed_batches, deleted_count, storeDone,
                   failsLeft, storeFailed, listFailed, ret, outcome>>

\* leaving the `with` block runs executor.shutdown(wait=True): the engine
\* returns once the work queue is empty and no worker is in a store call
Shutdown ==
    /\ pc = "shutdown"
    /\ queue = <<>> /\ Running = {}
    /\ pc' = "report"
    /\ UNCHANGED <<keyVars, previous>>
    /\ UNCHANGED <<held, operation_type, bucketOk, versioning, listing, kind, pageIdx,
                   reqLog, versioningQueries, batchI, ci, futures, queue, yielded,
                   cur, cancelled, paused, observed, pages_processed,
                   batches_created, completed_batches, deleted_count, storeDone,
                   failsLeft, storeFailed, listFailed, ret, outcome>>

\* S3OperationThread.run: the flag is read after the engine has returned
Report ==
    /\ pc = "report"
    /\ outcome' = Outcome(cancelled, ret)
    /\ pc' = "done"
    /\ UNCHANGED <<keyVars, previous>>
    /\ UNCHANGED <<held, operation_type, bucketOk, versioning, listing, kind, pageIdx,
                   reqLog, versioningQueries, batchI, ci, futures, queue, yielded,
                   cur, cancelled, paused, observed, pages_processed,
                   batches_created, completed_batches, deleted_count, storeDone,
                   failsLeft, storeFailed, listFailed, ret>>

\* ------------------------------------------------------------------ worker pool
\* variant: once a store call has failed, the tasks still queued are dropped
StartOne_stopAfterFailure(f) ==
    IF storeFailed THEN [f EXCEPT !.st = "cancelled"]
    ELSE IF f.st = "pending" THEN [f EXCEPT !.st = "running", !.calls = f.calls + 1]
    ELSE f

\* a worker about to run the work item of future f: a cancelled future is
\* dropped, any other is marked running and its store call is issued
StartOne(f) ==
    IF f.st = "pending" THEN [f EXCEPT !.st = "running", !.calls = f.calls + 1] ELSE f

\* variant: the workers take no new work item while the pause flag is set
WorkerTake_unlessPaused ==
    /\ queue # <<>>
    /\ ~paused
    /\ Cardinality(Running) < NumWorkers
    /\ queue' = Tail(queue)
    /\ futures' = [futures EXCEPT ![Head(queue)] = StartOne(futures[Head(queue)])]
    /\ UNCHANGED <<keyVars, previous>>
    /\ UNCHANGED <<held, operation_type, bucketOk, versioning, listing, kind, pc, pageIdx,
                   reqLog, versioningQueries, batchI, ci, yielded,
                   cur, cancelled, paused, observed, pages_processed,
                   batches_created, completed_batches, deleted_count, storeDone,
                   failsLeft, storeFailed, listFailed, ret, outcome>>

\* an idle worker takes the head of the work queue
WorkerTake ==
    /\ queue # <<>>
    /\ Cardinality(Running) < NumWorkers
    /\ queue' = Tail(queue)
    /\ futures' = [futures EXCEPT ![Head(queue)] = StartOne(futures[Head(queue)])]
    /\ UNCHANGED <<keyVars, previous>>
    /\ UNCHANGED <<held, operation_type, bucketOk, versioning, listing, kind, pc, pageIdx,
                   reqLog, versioningQueries, batchI, ci, yielded,
                   cur, cancelled, paused, observed, pages_processed,
                   batches_created, completed_batches, deleted_count, storeDone,
                   failsLeft, storeFailed, listFailed, ret, outcome>>

\* _delete_batch on n items: len(response['Deleted']), or 0 on any exception
delete_batch(n, answer) ==
    CASE answer = "ok" -> n
      [] answer = "item_error" -> n - 1
      [] answer = "exception" -> 0

\* _copy_single_object: True, or False on any exception
copy_single_object(answer) == IF answer = "ok" THEN 1 ELSE 0

\* what the store may answer to one call
StoreAnswers ==
    IF failsLeft = 0 THEN {"ok"}
    ELSE IF kind = "copy" THEN {"ok", "exception"}
    ELSE {"ok", "item_error", "exception"}

\* the store call of a running task returns and the future is done
WorkerFinish ==
    \E f \in Running : \E answer \in StoreAnswers :
      LET r == IF kind = "copy" THEN copy_single_object(answer)
               ELSE delete_batch(BatchSize(futures[f]), answer) IN
      /\ futures' = [futures EXCEPT ![f].st = "done", ![f].res = r]
      /\ storeDone' = storeDone + r
      /\ failsLeft' = IF answer = "ok" THEN failsLeft ELSE failsLeft - 1
      /\ storeFailed' = (storeFailed \/ answer # "ok")
      /\ UNCHANGED <<keyVars, previous>>
      /\ UNCHANGED <<held, operation_type, bucketOk, versioning, listing, kind, pc,
                     pageIdx, reqLog, versioningQueries, batchI, ci, queue, yielded,
                     cur, cancelled, paused, observed, pages_processed,
                     batches_created, completed_batches, deleted_count,
                     listFailed, ret, outcome>>

\* ------------------------------------------------------------------ caller
\* the operation thread has not reported yet (isRunning)
ThreadRunning == pc # "done"

\* on_stop_clicked -> S3OperationThread.cancel; the Stop and Pause buttons
\* are disabled afterwards
Cancel ==
    /\ ThreadRunning /\ ~cancelled
    /\ cancelled' = TRUE
    /\ UNCHANGED <<keyVars, previous>>
    /\ UNCHANGED <<held, operation_type, bucketOk, versioning, listing, kind, pc, pageIdx,
                   reqLog, versioningQueries, batchI, ci, futures, queue, yielded,
                   cur, paused, observed, pages_processed,
                   batches_created, completed_batches, deleted_count, storeDone,
                   failsLeft, storeFailed, listFailed, ret, outcome>>

\* on_pause_clicked -> S3OperationThread.pause / resume
Pause ==
    /\ ThreadRunning /\ ~cancelled /\ ~paused
    /\ paused' = TRUE
    /\ UNCHANGED <<keyVars, previous>>
    /\ UNCHANGED <<held, operation_type, bucketOk, versioning, listing, kind, pc, pageIdx,
                   reqLog, versioningQueries, batchI, ci, futures, queue, yielded,
                   cur, cancelled, observed, pages_processed,
                   batches_created, completed_batches, deleted_count, storeDone,
                   failsLeft, storeFailed, listFailed, ret, outcome>>

Resume ==
    /\ ThreadRunning /\ ~cancelled /\ paused
    /\ paused' = FALSE
    /\ UNCHANGED <<keyVars, previous>>
    /\ UNCHANGED <<held, operation_type, bucketOk, versioning, listing, kind, pc, pageIdx,
                   reqLog, versioningQueries, batchI, ci, futures, queue, yielded,
                   cur, cancelled, observed, pages_processed,
                   batches_created, completed_batches, deleted_count, storeDone,
                   failsLeft, storeFailed, listFailed, ret, outcome>>

\* ------------------------------------------------------------------ specification
Next ==
    \/ VerifyBucket \/ QueryVersioning \/ NextPage \/ CheckCancel
    \/ CancelFutures \/ PauseCheck \/ Sleep \/ ProcessPage \/ Submit
    \/ Drain \/ DrainCheck \/ DrainPause \/ DrainSleep \/ Shutdown \/ Report
    \/ WorkerTake \/ WorkerFinish
    \/ Cancel \/ Pause \/ Resume

Spec == Init /\ [][Next]_vars

\* the steps of the operation thread (driving thread and its report)
Driver ==
    \/ VerifyBucket \/ QueryVersioning \/ NextPage \/ CheckCancel
    \/ CancelFutures \/ PauseCheck \/ Sleep \/ ProcessPage \/ Submit
    \/ Drain \/ DrainCheck \/ DrainPause \/ DrainSleep \/ Shutdown \/ Report

\* the strategy the run of an initial state will take
InitKind ==
    IF operation_type = "copy" THEN "copy"
    ELSE IF is_versioned(versioning) THEN "versioned" ELSE "plain"

\* the runs of at most MaxFairTasks tasks
FairInit ==
    Init /\ TaskCount(InitKind, listing, Len(listing)) <= MaxFairTasks

\* the operation thread and the pool workers are scheduled, and store calls
\* return; nothing is assumed about the caller's Cancel, Pause and Resume
FairSpec ==
    /\ FairInit /\ [][Next]_vars
    /\ WF_vars(Driver) /\ WF_vars(WorkerTake) /\ WF_vars(WorkerFinish)

\* ------------------------------------------------------------------ session
\* the strategy an operation of type op takes on versioning answer v
StrategyOf(op, v) ==
    IF op = "copy" THEN "copy"
    ELSE IF is_versioned(v) THEN "versioned" ELSE "plain"

\* what the store can hold for an operation: the choices of Init
BucketAnswers(op) ==
    IF op = "clean" THEN {<<TRUE, TRUE>>, <<FALSE, TRUE>>}
    ELSE {<<TRUE, TRUE>>, <<FALSE, TRUE>>, <<TRUE, FALSE>>}

VersioningFor(op) == IF op = "clean" THEN VersioningAnswers ELSE {"Suspended"}

ListingsFor(op, b, v) ==
    IF op = "clean"
    THEN IF ~b[1] \/ VersioningRaises(v) THEN {<<Page(0, 0)>>}
         ELSE IF is_versioned(v) THEN Listings("versioned", VersionedPages)
         ELSE Listings("plain", PlainPages) \cup {ScenarioPlain, ShortPages}
    ELSE IF b # <<TRUE, TRUE>> THEN {<<Page(0, 0)>>}
         ELSE Listings("copy", CopyPages)

\* the operations of at most MaxSessionTasks tasks
SessionListings(op, b, v) ==
    {l \in ListingsFor(op, b, v) :
        TaskCount(StrategyOf(op, v), l, Len(l)) <= MaxSessionTasks}

SessionInit ==
    Init /\ listing \in SessionListings(operation_type, bucketOk, versioning)

\* variant: the new operation keeps the flags of the thread it replaces
StartOperation_reusesSignal ==
    /\ pc = "done"
    /\ previous' = [cancelled |-> cancelled, paused |-> paused, any |-> TRUE]
    /\ \E op \in {"clean", "copy"} :
         \E b \in BucketAnswers(op) : \E v \in VersioningFor(op) :
           \E l \in SessionListings(op, b, v) :
             /\ operation_type' = op /\ bucketOk' = b
             /\ versioning' = v /\ listing' = l
    /\ kind' = "none" /\ pc' = "verify" /\ pageIdx' = 0 /\ reqLog' = <<>>
    /\ versioningQueries' = 0 /\ batchI' = 0 /\ ci' = 0
    /\ futures' = <<>> /\ queue' = <<>> /\ yielded' = {} /\ cur' = 0
    /\ observed' = FALSE /\ held' = FALSE
    /\ pages_processed' = 0 /\ batches_created' = 0
    /\ completed_batches' = 0 /\ deleted_count' = 0 /\ storeDone' = 0
    /\ failsLeft' = MaxStoreFailures
    /\ storeFailed' = FALSE /\ listFailed' = FALSE
    /\ ret' = FALSE /\ outcome' = "none"
    /\ UNCHANGED <<cancelled, paused>>
    /\ UNCHANGED keyVars

\* start_clean_operation / start_copy_operation: refused while the current
\* thread isRunning(); otherwise a new S3OperationThread, whose __init__ sets
\* _cancelled = _paused = False, replaces the old one and is started
StartOperation ==
    /\ pc = "done"
    /\ previous' = [cancelled |-> cancelled, paused |-> paused, any |-> TRUE]
    /\ \E op \in {"clean", "copy"} :
         \E b \in BucketAnswers(op) : \E v \in VersioningFor(op) :
           \E l \in SessionListings(op, b, v) :
             /\ operation_type' = op /\ bucketOk' = b
             /\ versioning' = v /\ listing' = l
    /\ kind' = "none" /\ pc' = "verify" /\ pageIdx' = 0 /\ reqLog' = <<>>
    /\ versioningQueries' = 0 /\ batchI' = 0 /\ ci' = 0
    /\ futures' = <<>> /\ queue' = <<>> /\ yielded' = {} /\ cur' = 0
    /\ cancelled' = FALSE /\ paused' = FALSE
    /\ observed' = FALSE /\ held' = FALSE
    /\ pages_processed' = 0 /\ batches_created' = 0
    /\ completed_batches' = 0 /\ deleted_count' = 0 /\ storeDone' = 0
    /\ failsLeft' = MaxStoreFailures
    /\ storeFailed' = FALSE /\ listFailed' = FALSE
    /\ ret' = FALSE /\ outcome' = "none"
    /\ UNCHANGED keyVars

SessionNext ==
    \/ VerifyBucket \/ QueryVersioning \/ NextPage \/ CheckCancel
    \/ CancelFutures \/ PauseCheck \/ Sleep \/ ProcessPage \/ Submit
    \/ Drain \/ DrainCheck \/ DrainPause \/ DrainSleep \/ Shutdown \/ Report
    \/ WorkerTake \/ WorkerFinish
    \/ Cancel \/ Pause \/ Resume
    \/ StartOperation

\* a window session: one operation after another
SessionSpec == SessionInit /\ [][SessionNext]_vars



\* ------------------------------------------------------------------ destination keys
\* Strings are sequences of one-character strings.
Alphabet == {"a", "/"}
Strings(n) == UNION {[1..m -> Alphabet] : m \in 0..n}

RECURSIVE LStrip(_)
\* str.lstrip('/')
LStrip(s) == IF s # <<>> /\ Head(s) = "/" THEN LStrip(Tail(s)) ELSE s

RECURSIVE RStrip(_)
\* the trailing half of str.strip('/')
RStrip(s) ==
    IF s # <<>> /\ s[Len(s)] = "/" THEN RStrip(SubSeq(s, 1, Len(s) - 1)) ELSE s

\* `prefix.strip('/') if prefix else ''`
NormalizePrefix(s) == RStrip(LStrip(s))

\* variant: the leading '/' is stripped whether or not a source prefix is set
RelativeKey_alwaysStrip(sp, key) == LStrip(SubSeq(key, Len(sp) + 1, Len(key)))

\* source_key[len(source_prefix):].lstrip('/'), or the key itself when the
\* source prefix is empty
RelativeKey(sp, key) ==
    IF sp # <<>> THEN LStrip(SubSeq(key, Len(sp) + 1, Len(key))) ELSE key

\* the destination key handed to _copy_single_object
DestKey(sp, dp, key) ==
    LET rel == RelativeKey(sp, key) IN
    IF dp # <<>>
    THEN IF rel # <<>> THEN dp \o <<"/">> \o rel ELSE dp
    ELSE rel

\* the worked examples of the documentation: (source prefix, destination
\* prefix, source key, destination key)
Ex1 == [sp |-> <<"a", "/", "b">>, dp |-> <<"x", "/", "y">>,
        key |-> <<"a", "/", "b", "/", "c", ".", "t", "x", "t">>,
        dest |-> <<"x", "/", "y", "/", "c", ".", "t", "x", "t">>]
Ex2 == [sp |-> <<"l", "o", "g", "s", "/", "2", "0", "2", "3">>,
        dp |-> <<"a", "r", "c", "h", "i", "v", "e">>,
        key |-> <<"l", "o", "g", "s", "/", "2", "0", "2", "3", "/", "0", "1",
                  "/", "a", ".", "l", "o", "g">>,
        dest |-> <<"a", "r", "c", "h", "i", "v", "e", "/", "0", "1",
                   "/", "a", ".", "l", "o", "g">>]
Examples == {Ex1, Ex2}

\* the keys a listing with Prefix = sp can return: non-empty, starting with sp
ListedKeys(sp) ==
    ({sp \o t : t \in Strings(MaxStrLen)} \ {<<>>})
    \cup {e.key : e \in {x \in Examples : x.sp = sp}}

KeyInit ==
    /\ operation_type = "key"
    /\ bucketOk = <<TRUE, TRUE>> /\ versioning = "Suspended"
    /\ listing = <<Page(0, 0)>>
    /\ EngineStart("done")
    /\ \E pr \in (Strings(MaxStrLen) \X Strings(MaxStrLen))
                   \cup {<<e.sp, e.dp>> : e \in Examples} :
          source_prefix = pr[1] /\ dest_prefix = pr[2]
    /\ source_key = <<>> /\ dest_key = <<>> /\ kpc = "raw"

\* copy_objects: "Normalize prefixes"
Normalize ==
    /\ kpc = "raw"
    /\ source_prefix' = NormalizePrefix(source_prefix)
    /\ dest_prefix' = NormalizePrefix(dest_prefix)
    /\ kpc' = "list"
    /\ UNCHANGED <<source_key, dest_key>>
    /\ UNCHANGED <<engineVars, previous>>

\* `for obj in page['Contents']: source_key = obj['Key']`
ListKey ==
    /\ kpc = "list"
    /\ source_key' \in ListedKeys(source_prefix)
    /\ kpc' = "derive"
    /\ UNCHANGED <<source_prefix, dest_prefix, dest_key>>
    /\ UNCHANGED <<engineVars, previous>>

\* "Calculate destination key" / "Build destination key"
DeriveKey ==
    /\ kpc = "derive"
    /\ dest_key' = DestKey(source_prefix, dest_prefix, source_key)
    /\ kpc' = "derived"
    /\ UNCHANGED <<source_prefix, dest_prefix, source_key>>
    /\ UNCHANGED <<engineVars, previous>>

KeyNext == Normalize \/ ListKey \/ DeriveKey

KeySpec == KeyInit /\ [][KeyNext]_vars


\* ------------------------------------------------------------------ properties
\* the submitted tasks that carry listing position k
Covering(k) == {f \in 1..Len(futures) : futures[f].lo <= k /\ k <= futures[f].hi}

RECURSIVE SumCalls(_)
SumCalls(fs) ==
    IF fs = {} THEN 0
    ELSE LET f == CHOOSE x \in fs : TRUE IN futures[f].calls + SumCalls(fs \ {f})

\* store calls issued for listing position k
CallsFor(k) == SumCalls(Covering(k))

\* the run ended with no cancel request, no failed page request and no
\* failed store call
CleanRun == pc = "done" /\ ~cancelled /\ ~listFailed /\ ~storeFailed

\* C1: a Clean of a non-versioned bucket with N keys, whatever their split
\* into pages, with no cancellation, listing failure or store failure, ends
\* Success, has issued exactly one delete for each of the N keys and reports
\* N deleted; with N = 0 it creates no batch and reports 0.
C1_PlainCleanDeletesAll ==
    (CleanRun /\ kind = "plain") =>
        LET N == TotalItems("plain", listing) IN
        /\ outcome = "Success"
        /\ \A k \in 1..N : CallsFor(k) = 1
        /\ deleted_count = N
        /\ (N = 0 => batches_created = 0 /\ futures = <<>> /\ deleted_count = 0)

C1_Witness ==
    /\ CleanRun /\ kind = "plain" /\ outcome = "Success"
    /\ Len(listing) = 2 /\ deleted_count = 2 * BatchLimit + 1

\* C2: every batch a Clean (plain or versioned) has handed to the pool
\* carries at least 1 and at most 1000 work items.
C2_BatchSizeBounded ==
    kind \in {"plain", "versioned"} =>
        \A f \in 1..Len(futures) :
            1 <= BatchSize(futures[f]) /\ BatchSize(futures[f]) <= BatchLimit

C2_Witness ==
    /\ kind \in {"plain", "versioned"}
    /\ \E f, g \in 1..Len(futures) :
          /\ BatchSize(futures[f]) = BatchLimit
          /\ BatchSize(futures[g]) = 1
          /\ futures[f].hi + 1 = futures[g].lo

\* C3: a Clean of a bucket whose versioning is Enabled, with no cancellation
\* and no failure, issues a delete for every version and every delete marker
\* of the versions listing, and reports as deleted the versions +
\* delete_markers sum count_objects gives for the same listing.
C3_VersionedCleanDeletesAll ==
    (CleanRun /\ kind = "versioned") =>
        LET c == count_objects(versioning, listing) IN
        /\ outcome = "Success"
        /\ \A k \in 1..(c.versions + c.delete_markers) : CallsFor(k) = 1
        /\ deleted_count = c.versions + c.delete_markers
        /\ storeDone = c.versions + c.delete_markers

C3_Witness ==
    /\ CleanRun /\ kind = "versioned" /\ outcome = "Success"
    /\ listing = <<Page(20, 10), Page(1000, 1)>>
    /\ deleted_count = 1031 /\ Len(futures) = 3


\* s with the prefix pre removed, when s starts with pre
IsPrefix(pre, s) == Len(pre) <= Len(s) /\ SubSeq(s, 1, Len(pre)) = pre
AllSlashes(s) == \A i \in 1..Len(s) : s[i] = "/"
Suffixes(s) == {SubSeq(s, i, Len(s)) : i \in 1..(Len(s) + 1)}

\* r is `rest` with its leading '/' characters stripped
IsLStripped(rest, r) ==
    /\ r \in Suffixes(rest)
    /\ AllSlashes(SubSeq(rest, 1, Len(rest) - Len(r)))
    /\ (r = <<>> \/ r[1] # "/")

\* r is the key with the source prefix removed and leading '/' stripped
IsRelativeKey(sp, key, r) ==
    \E rest \in Suffixes(key) : key = sp \o rest /\ IsLStripped(rest, r)

\* the destination key built from the relative key r
JoinsTo(dp, r, dest) ==
    dest = IF dp # <<>> THEN (IF r # <<>> THEN dp \o <<"/">> \o r ELSE dp) ELSE r

ExamplesHold ==
    \A e \in Examples :
        (source_prefix = e.sp /\ dest_prefix = e.dp /\ source_key = e.key)
            => dest_key = e.dest

\* C4 as stated: the destination key is a function of the (normalized)
\* source prefix, destination prefix and source key: the relative key is the
\* source key with the source prefix removed and leading '/' stripped, joined
\* to the destination prefix with '/' (the prefix alone when the relative key
\* is empty, the relative key when no destination prefix is set); the two
\* worked examples hold, and with both prefixes empty the key is unchanged.
C4_DestKeyAsStated ==
    kpc = "derived" =>
        /\ \E r \in Suffixes(source_key) :
              /\ IsRelativeKey(source_prefix, source_key, r)
              /\ JoinsTo(dest_prefix, r, dest_key)
        /\ ExamplesHold
        /\ (source_prefix = <<>> /\ dest_prefix = <<>> => dest_key = source_key)

\* C4 amended: as stated, except that leading '/' characters are stripped
\* from the relative key only when the source prefix is non-empty; with an
\* empty source prefix the relative key is the source key itself.
C4_DestKeyMapping ==
    kpc = "derived" =>
        /\ \E r \in Suffixes(source_key) :
              /\ IF source_prefix # <<>>
                 THEN IsRelativeKey(source_prefix, source_key, r)
                 ELSE r = source_key
              /\ JoinsTo(dest_prefix, r, dest_key)
        /\ ExamplesHold
        /\ (source_prefix = <<>> /\ dest_prefix = <<>> => dest_key = source_key)

C4_Witness ==
    /\ kpc = "derived"
    /\ source_prefix = <<>> /\ dest_prefix = <<"a">>
    /\ source_key = <<"/", "a">>
    /\ dest_key = <<"a", "/", "/", "a">>


\* positions of the driving thread at which it reads the cancel flag
Checkpoints == {"check", "sleep", "drainchk", "drainsleep"}

\* C5: a batch whose store call is in progress is never interrupted (it stays
\* running until its call returns); a checkpoint the driving thread passes
\* after cancellation was requested observes it; and once a checkpoint has
\* observed it, no further batch is submitted and no further page processed.
C5_CancelStopsSubmission ==
    [][/\ \A f \in 1..Len(futures) :
             futures[f].st = "running" => futures'[f].st \in {"running", "done"}
       /\ (cancelled /\ pc \in Checkpoints /\ pc' # pc) => observed'
       /\ observed => /\ Len(futures') = Len(futures)
                      /\ pages_processed' = pages_processed
                      /\ pageIdx' = pageIdx]_vars

C5_Witness ==
    /\ observed /\ pc = "shutdown" /\ kind = "plain"
    /\ Len(futures) = 2 /\ pages_processed < pageIdx
    /\ Running # {}

\* C6: from the page checkpoint at which the driving thread reads paused =
\* TRUE until it reads paused = FALSE or cancelled = TRUE, no batch and no
\* copy task is submitted.
C6_PauseHaltsSubmission ==
    [][held => /\ Len(futures') = Len(futures)
               /\ Len(queue') <= Len(queue)
               /\ batches_created' = batches_created]_vars

C6_Witness ==
    /\ held /\ pc = "sleep" /\ paused /\ ~cancelled
    /\ batches_created >= 1 /\ CurLen > 0

\* no two submitted tasks carry the same listing position
TasksDisjoint ==
    \A f, g \in 1..Len(futures) :
        f # g => (futures[f].hi < futures[g].lo \/ futures[g].hi < futures[f].lo)

NoDuplicates(q) == \A i, j \in 1..Len(q) : i # j => q[i] # q[j]

\* C7: whatever the pause, resume and cancel requests, every listed item is
\* in at most one submitted task, every task issues at most one store call,
\* no page is requested twice, and a run that ends Success has submitted
\* every listed item exactly once.
C7_NoDuplication ==
    /\ TasksDisjoint
    /\ \A f \in 1..Len(futures) : futures[f].calls <= 1
    /\ NoDuplicates(reqLog)
    /\ (pc = "done" /\ outcome = "Success") =>
           \A k \in 1..TotalItems(kind, listing) : Cardinality(Covering(k)) = 1

C7_Witness ==
    /\ pc = "done" /\ outcome = "Success" /\ paused
    /\ Len(futures) = 4 /\ Len(reqLog) = 2
    /\ \A f \in 1..Len(futures) : futures[f].calls = 1

\* C8: when a run of Clean or Copy in which no cancellation was requested
\* reaches Completed, the completions processed equal the batches or copy
\* tasks created, tasks whose store call failed included.
C8_CompletedEqualsCreated ==
    (pc = "done" /\ ~cancelled /\ outcome = "Success") =>
        /\ completed_batches = batches_created
        /\ batches_created = Len(futures)

C8_Witness ==
    /\ pc = "done" /\ ~cancelled /\ outcome = "Success"
    /\ kind = "copy" /\ storeFailed
    /\ batches_created = 3 /\ deleted_count = 2

\* C9 as stated: Cancelled is reported only for runs in which a cancellation
\* checkpoint of the engine observed cancelled = TRUE.
C9_CancelledOnlyIfObserved ==
    outcome = "Cancelled" => observed

\* C10 as stated: when enumeration and draining finish with no exception
\* (the engine returns True) and no checkpoint observed a cancellation, the
\* outcome reported is Success.
C10_SuccessWhenFinished ==
    (pc = "done" /\ ret /\ ~observed) => outcome = "Success"


\* C11: when a cancellation checkpoint observed cancelled = TRUE and the
\* engine returned early, the outcome delivered to the caller is Cancelled
\* (with the cancellation message), never Failed and never Success.
C11_ObservedCancelReportsCancelled ==
    /\ (observed /\ pc \in {"shutdown", "report", "done"}) => ~ret
    /\ (observed /\ pc = "done") => outcome = "Cancelled"

C11_Witness ==
    /\ pc = "done" /\ observed /\ outcome = "Cancelled"
    /\ yielded # {} /\ completed_batches < batches_created
    /\ ci = 0 /\ ~held


\* a task whose store call did not delete / copy everything it was given
FailedTasks ==
    {f \in 1..Len(futures) :
        futures[f].st = "done" /\ futures[f].res < BatchSize(futures[f])}

\* C12: whatever items, whole delete batches or single copies fail, when the
\* listing succeeds and no cancellation is requested every task of the
\* listing is still submitted and executed (one store call each), the failed
\* task is counted as completed like any other, and the outcome is Success.
C12_FailuresDoNotStopSiblings ==
    (pc = "done" /\ kind # "none" /\ ~cancelled /\ ~listFailed) =>
        /\ Len(futures) = TaskCount(kind, listing, Len(listing))
        /\ \A f \in 1..Len(futures) :
              futures[f].st = "done" /\ futures[f].calls = 1
        /\ completed_batches = Len(futures)
        /\ outcome = "Success"

C12_Witness ==
    /\ pc = "done" /\ ~cancelled /\ ~listFailed /\ storeFailed
    /\ Len(futures) >= 2
    /\ FailedTasks # {} /\ FailedTasks # 1..Len(futures)
    /\ \E f \in FailedTasks : f < Len(futures)
    /\ completed_batches = Len(futures)
    /\ outcome = "Success"


\* the bucket of Clean, or one of the two buckets of Copy, is missing
BucketMissing ==
    IF operation_type = "clean" THEN ~bucketOk[1]
    ELSE ~(bucketOk[1] /\ bucketOk[2])

\* C13 as stated: when a bucket of the operation does not exist or is not
\* accessible, the operation ends Failed and no versioning query, listing
\* request, delete call or copy call is issued in that run.
C13_MissingBucketFailsFast ==
    BucketMissing =>
        /\ versioningQueries = 0 /\ reqLog = <<>> /\ futures = <<>>
        /\ storeDone = 0
        /\ pc = "done" => outcome = "Failed"


\* C14: once a page request has failed, no further page is requested and no
\* further batch or copy task is submitted, what was deleted or copied stays
\* so, and the run ends Failed when no cancellation was requested.
C14_ListingFailureIsFatal ==
    [][/\ listFailed =>
            /\ reqLog' = reqLog
            /\ Len(futures') = Len(futures)
            /\ batches_created' = batches_created
            /\ storeDone' >= storeDone
       /\ (listFailed' /\ pc' \in {"shutdown", "report", "done"}) => ~ret'
       /\ (listFailed' /\ pc' = "done" /\ ~cancelled') => outcome' = "Failed"]_vars

C14_Witness ==
    /\ listFailed /\ pc = "done" /\ ~cancelled /\ outcome = "Failed"
    /\ Len(reqLog) < Len(listing)
    /\ Len(futures) >= 1 /\ storeDone > 0


\* an uncancelled Clean of a non-versioned bucket has run to its end
PlainCleanDone ==
    pc = "done" /\ kind = "plain" /\ ~cancelled /\ ~listFailed

BatchSizes == [f \in 1..Len(futures) |-> BatchSize(futures[f])]

\* C15 as stated: N keys give exactly ceil(N/1000) batches, all of 1000
\* items except possibly the last, whatever the page sizes; 2500 keys give
\* batches [1000, 1000, 500].
C15_BatchesSpanPages ==
    PlainCleanDone =>
        LET N == TotalItems("plain", listing) IN
        /\ Len(futures) = (N + BatchLimit - 1) \div BatchLimit
        /\ \A f \in 1..Len(futures) :
              f < Len(futures) => BatchSize(futures[f]) = BatchLimit
        /\ N = 2500 => BatchSizes = <<1000, 1000, 500>>

\* C15: batches are cut page by page: a page of n keys gives ceil(n/1000)
\* batches, each within that page and of 1000 items except possibly the last
\* one of the page; 2500 keys listed in pages of 1000, 1000 and 500 give
\* batches [1000, 1000, 500].
C15_BatchesPerPage ==
    PlainCleanDone =>
        /\ Len(futures) = TaskCount("plain", listing, Len(listing))
        /\ \A f \in 1..Len(futures) :
              LET p == PageOf("plain", listing, futures[f].lo)
                  end == Offset("plain", listing, p) + PageLen("plain", listing[p])
              IN /\ futures[f].hi <= end
                 /\ BatchSize(futures[f]) = BatchLimit \/ futures[f].hi = end
        /\ listing = ScenarioPlain => BatchSizes = <<1000, 1000, 500>>

C15_Witness ==
    /\ PlainCleanDone /\ listing = ShortPages
    /\ BatchSizes = <<500, 500>>
    /\ deleted_count = 1000


\* the copy tasks whose copy_object call succeeded
CopiesSucceeded == {f \in 1..Len(futures) : futures[f].res = 1}

\* C16: in a Copy run that is neither cancelled nor failed, one copy task is
\* submitted per listed object (no batching), each task issues one copy call
\* for its object, and the copied total equals the number of copy calls that
\* succeeded.
C16_OneCopyPerObject ==
    (pc = "done" /\ kind = "copy" /\ outcome = "Success") =>
        /\ Len(futures) = TotalItems("copy", listing)
        /\ \A f \in 1..Len(futures) :
              /\ futures[f].lo = f /\ futures[f].hi = f
              /\ futures[f].st = "done" /\ futures[f].calls = 1
        /\ deleted_count = Cardinality(CopiesSucceeded)
        /\ deleted_count = storeDone

C16_Witness ==
    /\ pc = "done" /\ kind = "copy" /\ outcome = "Success"
    /\ Len(listing) = 2 /\ listing[1] = Page(2, 0)
    /\ Len(futures) = TotalItems("copy", listing) /\ Len(futures) >= 3
    /\ futures[2].res = 0
    /\ deleted_count = Len(futures) - 1


Unfinished == {f \in 1..Len(futures) : futures[f].st \in {"pending", "running"}}

\* C18 as stated: when a checkpoint has observed the cancellation, the
\* operation returns to the caller without waiting for dispatched tasks:
\* the return is possible whatever is still pending or running in the pool.
C18_ReturnsWithoutWaiting ==
    (pc = "shutdown" /\ observed) => ENABLED Shutdown

\* C18: when a checkpoint has observed the cancellation, the operation
\* returns to the caller only after every dispatched task has finished or
\* been cancelled: while a task is pending or running the driving thread
\* stays in the shutdown of the pool, and no outcome is reported.
C18_ReturnWaitsForDispatchedTasks ==
    [][/\ (pc = "shutdown" /\ observed /\ Unfinished # {}) =>
            (pc' = "shutdown" /\ outcome' = "none")
       /\ (observed' /\ pc' \in {"report", "done"}) =>
            (Unfinished' = {} /\ queue' = <<>>)]_vars

C18_Witness ==
    /\ pc = "shutdown" /\ observed /\ outcome = "none"
    /\ Running # {} /\ queue # <<>>
    /\ ~ENABLED Shutdown


\* C19 as stated: the cancel flag is checked before each individual
\* submission, so no batch or copy task is submitted, in the middle of a
\* page or elsewhere, once cancelled is true.
C19_NoSubmissionOnceCancelled ==
    [][cancelled => Len(futures') = Len(futures)]_vars

\* C19: the cancel flag is read once per page, before the page's first
\* submission (and in the pause loops and before each completion), never
\* between two submissions of a page: once a page has passed its check all
\* its tasks are submitted, also when cancelled becomes true in the middle
\* of the page.
C19_CancellationCheckedPerPage ==
    [][/\ pc = "submit" => (observed' = observed /\ pc' \in {"submit", "page"})
       /\ (pc = "submit" /\ cancelled /\ batchI' # batchI) =>
            Len(futures') = Len(futures) + 1
       /\ pc' = "page" => Len(futures') = TaskCount(kind', listing', pageIdx')
       /\ (observed' /\ ~observed) => pc \in Checkpoints]_vars

C19_Witness ==
    /\ pc = "submit" /\ cancelled /\ ~observed
    /\ batchI > 0 /\ batchI < CurLen
    /\ Len(futures) < TaskCount(kind, listing, pageIdx)


\* an exception was raised inside the engine: a page request failed or the
\* versioning query raised past is_versioned
ExceptionRaised == listFailed \/ (versioningQueries > 0 /\ VersioningRaises(versioning))

\* C20 as stated: no exception raised inside Clean or Copy escapes it; every
\* such exception is mapped to a Failed outcome returned to the caller, and
\* nothing already executed is undone.
C20_ExceptionsMapToFailed ==
    /\ (ExceptionRaised /\ pc \in {"shutdown", "report", "done"}) => ~ret
    /\ (ExceptionRaised /\ pc = "done") => outcome = "Failed"


Terminal == {"Success", "Cancelled", "Failed"}

\* C21: with a finite listing, store calls that return, fair scheduling of
\* the driving thread and the workers, and a pause that is eventually lifted
\* (or overtaken by a cancellation), every Clean or Copy run eventually
\* reports one terminal outcome, and the outcome reported is never replaced.
C21_ReachesOneTerminalOutcome ==
    /\ [][outcome # "none" => outcome' = outcome]_vars
    /\ [](pc = "done" <=> outcome \in Terminal)
    /\ (<>[](paused => cancelled)) => <>(pc = "done" /\ outcome \in Terminal)

C21_Witness ==
    /\ pc = "done" /\ outcome \in Terminal
    /\ ~paused /\ pages_processed = Len(listing)
    /\ Len(futures) >= 2 /\ yielded = 1..Len(futures)


\* C22: in a Clean run whose bucket exists the versioning status is queried
\* exactly once, after the existence check and before the first listing
\* request, and the strategy chosen from the answer stays the same for every
\* page of the run.
C22_VersioningQueriedOnce ==
    [][operation_type = "clean" =>
        /\ versioningQueries' <= 1
        /\ versioningQueries' # versioningQueries =>
              (pc = "versioning" /\ bucketOk[1] /\ reqLog = <<>>)
        /\ pc' = "verify" => versioningQueries' = 0
        /\ reqLog' # <<>> => (versioningQueries' = 1 /\ kind' = InitKind)
        /\ kind # "none" => kind' = kind
        /\ (pc' = "done" /\ bucketOk[1]) => versioningQueries' = 1]_vars

C22_Witness ==
    /\ operation_type = "clean" /\ pc = "done" /\ outcome = "Success"
    /\ versioningQueries = 1 /\ kind = "versioned"
    /\ reqLog = <<1, 2>> /\ Len(futures) >= 2


\* positions of the driving thread up to the end of the page loop
Enumerating ==
    pc \in {"verify", "versioning", "page", "check", "cancelfut", "pausechk",
            "sleep", "process", "submit"}

C24_SubmissionNeverWaits ==
    /\ pc = "submit" => ENABLED Submit
    /\ Cardinality(Running) <= NumWorkers

\* every task of the listing submitted, none completed, more than W in flight
C24_Witness ==
    /\ pc = "page" /\ pageIdx = Len(listing)
    /\ Len(futures) = TaskCount(kind, listing, Len(listing))
    /\ Unfinished = 1..Len(futures)
    /\ Cardinality(Unfinished) > NumWorkers
    /\ Cardinality(Running) = NumWorkers


\* the driving thread is inside one of its pause loops
InPauseLoop == pc \in {"sleep", "drainsleep"}

\* C25: while the driving thread is in a pause loop the tasks already handed
\* to the pool are neither suspended nor cancelled: an idle worker can take
\* the next queued task, a running store call can return, no task becomes
\* cancelled, and all of them eventually complete their store calls even
\* when the pause is never lifted (and no cancellation is requested).
C25_PauseLeavesWorkersRunning ==
    /\ [](InPauseLoop =>
            /\ (queue # <<>> /\ Cardinality(Running) < NumWorkers) => ENABLED WorkerTake
            /\ Running # {} => ENABLED WorkerFinish)
    /\ [][InPauseLoop =>
            \A f \in 1..Len(futures) :
                futures'[f].st = "cancelled" => futures[f].st = "cancelled"]_vars
    /\ (InPauseLoop /\ Unfinished # {}) ~>
          (Unfinished = {} \/ ~paused \/ cancelled)

C25_Witness ==
    /\ pc = "sleep" /\ paused /\ ~cancelled
    /\ Len(futures) >= 2 /\ Unfinished = {}
    /\ \A f \in 1..Len(futures) : futures[f].calls = 1


\* the futures whose completion the drain loop has processed: those handed
\* out, except the one in hand or dropped by a cancellation check
Processed ==
    IF pc \in {"drainchk", "drainpause", "drainsleep"} \/ (observed /\ yielded # {})
    THEN yielded \ {cur}
    ELSE yielded

RECURSIVE SumRes(_)
SumRes(fs) ==
    IF fs = {} THEN 0
    ELSE LET f == CHOOSE x \in fs : TRUE IN futures[f].res + SumRes(fs \ {f})

\* C26: at every point of a run the deleted / copied total equals the sum of
\* the results of the completions processed so far (nothing lost, nothing
\* counted twice), never exceeds what the store calls of the run have
\* deleted / copied, and equals it when the run ends Completed.
C26_TotalMatchesProcessedResults ==
    /\ deleted_count = SumRes(Processed)
    /\ completed_batches = Cardinality(Processed)
    /\ deleted_count <= storeDone
    /\ (pc = "done" /\ outcome = "Success") => deleted_count = storeDone

C26_Witness ==
    /\ pc = "drain" /\ storeFailed
    /\ completed_batches >= 1 /\ completed_batches < Len(futures)
    /\ deleted_count > 0 /\ deleted_count < storeDone
    /\ \E f \in Processed : futures[f].res < BatchSize(futures[f])


\* C27: during one operation none of the progress counters (pages processed,
\* batches or tasks created, completions processed, items done) decreases
\* from one state to the next.
C27_CountersNeverDecrease ==
    [][/\ pages_processed' >= pages_processed
       /\ batches_created' >= batches_created
       /\ completed_batches' >= completed_batches
       /\ deleted_count' >= deleted_count]_vars

C27_Witness ==
    /\ pc = "drainchk" /\ ~cancelled
    /\ pages_processed = 2 /\ batches_created >= 3
    /\ completed_batches = 2 /\ deleted_count > 0


HasVersionId(item) == "VersionId" \in DOMAIN item
IsMarker(item) == item.Key[1] = "DeleteMarkers"
IsVersion(item) == item.Key[1] = "Versions"

\* the work items of the batch a submission has just appended
LastBatch(fs) == fs[Len(fs)]

\* C28: in versioned cleanup every submitted work item carries a versionId
\* and, among the items taken from one page, every object version comes
\* before every delete marker; in plain cleanup no submitted work item
\* carries a versionId. Stated for the batch each submission hands over: the
\* entries lo..hi of the item list of the page in hand.
C28_WorkItemsCarryVersionIds ==
    [][(Len(futures') > Len(futures) /\ kind \in {"plain", "versioned"}) =>
        LET b == LastBatch(futures') IN
        \A j \in (b.lo - CurOff)..(b.hi - CurOff) :
            LET item == WorkItem(kind, CurPage, j) IN
            /\ HasVersionId(item) <=> kind = "versioned"
            /\ kind = "versioned" => (IsVersion(item) \/ IsMarker(item))
            /\ (j > 1 /\ IsVersion(item)) =>
                  IsVersion(WorkItem(kind, CurPage, j - 1))]_vars

C28_Witness ==
    /\ kind = "versioned" /\ pc = "page" /\ futures # <<>>
    /\ pageIdx >= 1 /\ CurPage = Page(20, 10)
    /\ BatchSize(LastBatch(futures)) = 30
    /\ IsVersion(WorkItem(kind, CurPage, 20))
    /\ IsMarker(WorkItem(kind, CurPage, 21))
    /\ HasVersionId(WorkItem(kind, CurPage, 30))

\* the last listing position handed to the pool so far
SubmittedUpTo == IF futures = <<>> THEN 0 ELSE LastBatch(futures).hi

\* C29: a delete batch is submitted as soon as its slice fills or its page
\* ends: each batch submitted starts right after the one before it and lies
\* within the page in hand, the items before the loop index are submitted
\* during the page, and when the driving thread moves on to the next page
\* every item of the pages before it has been submitted.
C29_PageSubmittedBeforeNext ==
    [][kind' \in {"plain", "versioned"} =>
        /\ Len(futures') > Len(futures) =>
              LET b == LastBatch(futures') IN
              /\ b.lo = SubmittedUpTo + 1 /\ b.lo <= b.hi
              /\ CurOff < b.lo /\ b.hi <= CurOff + CurLen
        /\ pc' = "submit" => SubmittedUpTo' = CurOff' + batchI'
        /\ pc' \in {"page", "drain"} => SubmittedUpTo' = SumLen(kind', listing', pageIdx')
        /\ pc' \in {"check", "pausechk", "sleep", "process"} =>
              SubmittedUpTo' = SumLen(kind', listing', pageIdx' - 1)]_vars

C29_Witness ==
    /\ kind = "plain" /\ pc = "check" /\ pageIdx = 2
    /\ Len(futures) = 2 /\ BatchSize(futures[1]) = BatchLimit
    /\ BatchSize(futures[2]) = 1
    /\ SubmittedUpTo = PageLen(kind, listing[1])


\* C30: no step of the engine (driving thread, report, workers) changes the
\* cancelled or the paused flag; a change of either flag is a Cancel, Pause
\* or Resume request of the caller.
C30_FlagsWrittenByCallerOnly ==
    [][/\ (Driver \/ WorkerTake \/ WorkerFinish) => UNCHANGED <<cancelled, paused>>
       /\ cancelled' # cancelled => Cancel
       /\ paused' # paused => (Pause \/ Resume)]_vars

C30_Witness ==
    /\ pc = "done" /\ cancelled /\ paused /\ observed
    /\ Len(futures) >= 2
    /\ \A f \in 1..Len(futures) : futures[f].st = "done"


\* C31: every operation starts with a control signal of its own, with
\* cancelled = FALSE and paused = FALSE, whatever the flags of the operation
\* before it; a Cancel or Pause issued for an earlier operation does not make
\* a later one observe a cancellation, wait in a pause loop or end Cancelled.
C31_FreshSignalPerOperation ==
    [][/\ (pc = "done" /\ pc' # "done") =>
            /\ ~cancelled' /\ ~paused' /\ ~observed' /\ ~held'
            /\ previous'.cancelled = cancelled /\ previous'.paused = paused
       /\ cancelled' # cancelled => (Cancel \/ (pc = "done" /\ pc' # "done"))
       /\ paused' # paused => (Pause \/ Resume \/ (pc = "done" /\ pc' # "done"))
       /\ (observed' /\ ~observed) => cancelled
       /\ (held' /\ ~held) => paused
       /\ outcome' = "Cancelled" => cancelled']_vars

\* an operation that followed a cancelled and paused one has run to Success
C31_Witness ==
    /\ previous.any /\ previous.cancelled /\ previous.paused
    /\ pc = "done" /\ outcome = "Success"
    /\ ~cancelled /\ ~paused /\ ~observed
    /\ Len(futures) >= 1 /\ deleted_count > 0


\* the engine has returned to S3OperationThread.run
Returned == pc \in {"report", "done"}

\* C32: when Clean or Copy has returned, whatever the outcome, no worker is
\* executing a store call and none will execute one later: every dispatched
\* task has finished its call or was cancelled before it started, and from
\* then on no task and no store total changes.
C32_NoStoreCallAfterReturn ==
    [][/\ Returned' =>
            /\ Unfinished' = {} /\ queue' = <<>>
            /\ \A f \in 1..Len(futures') :
                  futures'[f].calls = IF futures'[f].st = "done" THEN 1 ELSE 0
       /\ (Returned /\ Returned') =>
            (futures' = futures /\ storeDone' = storeDone)]_vars

C32_Witness ==
    /\ pc = "done" /\ listFailed /\ outcome = "Failed"
    /\ Len(futures) >= 2 /\ yielded = {}
    /\ \A f \in 1..Len(futures) : futures[f].st = "done"
    /\ storeDone > 0 /\ deleted_count = 0


\* C33 as stated: for a fixed source prefix and destination prefix the
\* destination-key mapping is injective on the keys the prefix listing
\* returns: no listed key other than the source key maps to the destination
\* key derived for it.
C33_DestKeysInjective ==
    kpc = "derived" =>
        \A other \in ListedKeys(source_prefix) \ {source_key} :
            DestKey(source_prefix, dest_prefix, other) # dest_key

\* C36 as stated: for every non-empty source key of the prefix listing and
\* every choice of prefixes, the destination key passed to the copy call is
\* non-empty.
C36_DestKeyNonEmpty ==
    (kpc = "derived" /\ source_key # <<>>) => dest_key # <<>>


\* the versioning-status query of this run has been made and has failed
QueryFailed(answers) == versioning \in answers /\ versioningQueries > 0

\* C35 as stated: when the versioning-status query fails, Clean goes on with
\* the plain enumeration strategy, and ends Failed only if something else
\* (a listing request) fails.
C35_QueryFailureMeansPlain ==
    QueryFailed({"ClientError", "ConnectionError"}) =>
        /\ kind = "plain"
        /\ outcome = "Failed" => listFailed

\* C35 amended: when the versioning-status query is answered with a store
\* error (ClientError), the query step hands over to the plain enumeration
\* without setting a return value, no batch submitted in that run has an item
\* carrying a versionId, and the run ends Failed only when a listing request
\* failed.
C35_StoreErrorMeansPlain ==
    [][versioning = "ClientError" =>
        /\ (pc = "versioning" /\ pc' # "versioning") =>
              (pc' = "page" /\ kind' = "plain" /\ ret' = ret)
        /\ Len(futures') > Len(futures) =>
              LET b == LastBatch(futures') IN
              \A j \in (b.lo - CurOff)..(b.hi - CurOff) :
                  ~HasVersionId(WorkItem(kind, CurPage, j))
        /\ (versioningQueries > 0 /\ outcome' = "Failed" /\ outcome # "Failed") =>
              listFailed]_vars

C35_Witness ==
    /\ QueryFailed({"ClientError"})
    /\ pc = "done" /\ outcome = "Success" /\ kind = "plain"
    /\ Len(futures) >= 2 /\ deleted_count > 0


\* the driving thread is held by the pause: asleep in a pause loop, or about
\* to test a pause flag that is set
HeldByPause == InPauseLoop \/ (pc \in {"pausechk", "drainpause"} /\ paused)

\* C34: when cancellation has been requested while the driving thread is
\* held in a pause loop (of the page loop of Clean or Copy, or of the drain
\* loop of Copy), the next cancellation check of the loop observes it and
\* leaves the loop with a False return, the pause flag is never cleared
\* again, and the run ends with outcome Cancelled.
C34_CancelEndsPause ==
    /\ [][(InPauseLoop /\ cancelled /\ pc' # pc) =>
            (observed' /\ ret' = FALSE /\ pc' = "shutdown")]_vars
    /\ [][cancelled => paused' = paused]_vars
    /\ (HeldByPause /\ cancelled) ~> (pc = "done" /\ outcome = "Cancelled")

C34_Witness ==
    /\ pc = "shutdown" /\ ret = FALSE /\ ~listFailed
    /\ cancelled /\ paused /\ observed
    /\ kind = "plain" /\ pages_processed < pageIdx
    /\ queue # <<>>

====
